---- MODULE Spec2Model ----
(***************************************************************************)
(* Extraction and reconciliation engine of the Top of the Rock scraper     *)
(* (src/scraper.py): the recursive JSON payload scanner, the rendered text *)
(* sweep, the response callback and the merge / dedup / sort step.         *)
(*                                                                         *)
(* Python str values are sequences of one-character strings, so that the   *)
(* regular expressions, strip / upper / lower / replace and the code-point *)
(* ordering used by sorted() are computed rather than assumed.             *)
(***************************************************************************)
EXTENDS Integers, Sequences, FiniteSets, TLC

----------------------------------------------------------------------------
(* Characters *)

TAB == "\t"

\* the printable ASCII characters in code-point order, starting at 32
\* ("GRAVE" holds the place of the grave accent, code point 96)
Ascii == <<" ", "!", "\"", "#", "$", "%", "&", "'", "(", ")", "*", "+", ",", "-", ".", "/", "0", "1", "2", "3", "4", "5", "6", "7", "8", "9", ":", ";", "<", "=", ">", "?", "@", "A", "B", "C", "D", "E", "F", "G", "H", "I", "J", "K", "L", "M", "N", "O", "P", "Q", "R", "S", "T", "U", "V", "W", "X", "Y", "Z", "[", "\\", "]", "^", "_", "GRAVE", "a", "b", "c", "d", "e", "f", "g", "h", "i", "j", "k", "l", "m", "n", "o", "p", "q", "r", "s", "t", "u", "v", "w", "x", "y", "z", "{", "|", "}", "~">>

UpperLetters == <<"A", "B", "C", "D", "E", "F", "G", "H", "I", "J", "K", "L", "M", "N", "O", "P", "Q", "R", "S", "T", "U", "V", "W", "X", "Y", "Z">>

LowerLetters == <<"a", "b", "c", "d", "e", "f", "g", "h", "i", "j", "k", "l", "m", "n", "o", "p", "q", "r", "s", "t", "u", "v", "w", "x", "y", "z">>

Digits == <<"0", "1", "2", "3", "4", "5", "6", "7", "8", "9">>

Range(s) == {s[i] : i \in 1..Len(s)}

IndexOf(s, c) == CHOOSE i \in 1..Len(s) : s[i] = c

\* ord(c): 9 for the tab, 31 + position for printable ASCII
Ord(c) == IF c = TAB THEN 9 ELSE 31 + IndexOf(Ascii, c)

IsDigit(c) == c \in Range(Digits)

DigitVal(c) == IndexOf(Digits, c) - 1

\* \s of the re module and the characters str.strip() removes
IsSpace(c) == c \in {" ", TAB}

\* \w of the re module, which \b is defined by
IsWord(c) == c \in Range(Digits) \cup Range(UpperLetters) \cup Range(LowerLetters) \cup {"_"}

LowerChar(c) == IF c \in Range(UpperLetters) THEN LowerLetters[IndexOf(UpperLetters, c)] ELSE c

UpperChar(c) == IF c \in Range(LowerLetters) THEN UpperLetters[IndexOf(LowerLetters, c)] ELSE c

----------------------------------------------------------------------------
(* str methods *)

Lower(s) == [i \in 1..Len(s) |-> LowerChar(s[i])]

Upper(s) == [i \in 1..Len(s) |-> UpperChar(s[i])]

\* s[a..b] as a sequence, empty when a > b
Slice(s, a, b) == [i \in 1..(b - a + 1) |-> s[a + i - 1]]

\* str.strip(): drop leading and trailing whitespace
Strip(s) ==
    LET nonsp == {i \in 1..Len(s) : ~IsSpace(s[i])}
        first == CHOOSE i \in nonsp : \A j \in nonsp : i <= j
        last  == CHOOSE i \in nonsp : \A j \in nonsp : j <= i
    IN  IF nonsp = {} THEN <<>> ELSE Slice(s, first, last)

\* str.replace(" ", ""): delete every space character (and only those)
RECURSIVE RemoveSpaces(_)
RemoveSpaces(s) ==
    IF s = <<>> THEN <<>>
    ELSE IF Head(s) = " " THEN RemoveSpaces(Tail(s))
    ELSE <<Head(s)>> \o RemoveSpaces(Tail(s))

\* str.replace("  ", " "): left to right, non-overlapping
RECURSIVE CollapseDoubleSpaces(_)
CollapseDoubleSpaces(s) ==
    IF Len(s) < 2 THEN s
    ELSE IF s[1] = " " /\ s[2] = " " THEN <<" ">> \o CollapseDoubleSpaces(Slice(s, 3, Len(s)))
    ELSE <<s[1]>> \o CollapseDoubleSpaces(Tail(s))

\* the 'in' operator on str: sub occurs in s as a contiguous substring
Contains(s, sub) ==
    \E p \in 1..(Len(s) - Len(sub) + 1) : Slice(s, p, p + Len(sub) - 1) = sub

\* s < t on str: comparison by code point, a proper prefix is smaller
StrLess(s, t) ==
    \E i \in 1..Len(t) :
        /\ \A j \in 1..(i - 1) : j <= Len(s) /\ s[j] = t[j]
        /\ \/ i = Len(s) + 1
           \/ i <= Len(s) /\ Ord(s[i]) < Ord(t[i])

----------------------------------------------------------------------------
(* Regular expressions *)

Min(a, b) == IF a < b THEN a ELSE b

Least(S) == CHOOSE x \in S : \A y \in S : x <= y

\* int() of a string of decimal digits
RECURSIVE ParseInt(_)
ParseInt(s) ==
    IF s = <<>> THEN 0
    ELSE 10 * ParseInt(Slice(s, 1, Len(s) - 1)) + DigitVal(s[Len(s)])

\* (\d{1,2}):(\d{2}) matches at p with an hour of h digits
HourMinuteAt(s, p, h) ==
    /\ p + h + 2 <= Len(s)
    /\ \A j \in 0..(h - 1) : IsDigit(s[p + j])
    /\ s[p + h] = ":"
    /\ IsDigit(s[p + h + 1])
    /\ IsDigit(s[p + h + 2])

\* hour length the greedy \d{1,2} settles on at p, 0 when nothing matches at p
HourLenAt(s, p) ==
    IF HourMinuteAt(s, p, 2) THEN 2 ELSE IF HourMinuteAt(s, p, 1) THEN 1 ELSE 0

\* re.search(r"(\d{1,2}):(\d{2})", s): <<start, hour length>> of the leftmost
\* match, <<>> for None
MinuteMatch(s) ==
    LET starts == {p \in 1..Len(s) : HourLenAt(s, p) > 0}
    IN  IF starts = {} THEN <<>> ELSE <<Least(starts), HourLenAt(s, Least(starts))>>

\* int(minute_match.group(2))
MinuteGroup(s, m) == ParseInt(Slice(s, m[1] + m[2] + 1, m[1] + m[2] + 2))

\* \b between s[e] (a word character) and s[e+1]
BoundaryAfter(s, e) == e = Len(s) \/ ~IsWord(s[e + 1])

\* \b between s[p-1] and s[p] (a word character)
BoundaryBefore(s, p) == p = 1 \/ ~IsWord(s[p - 1])

\* [AP]M under re.IGNORECASE at positions a, a+1
MeridiemAt(s, a) ==
    /\ a + 1 <= Len(s)
    /\ s[a] \in {"A", "P", "a", "p"}
    /\ s[a + 1] \in {"M", "m"}

\* \b\d{1,2}:\d{2}(?:\s?[AP]M)?\b at p: the index of the last matched
\* character, 0 when nothing matches at p.  The optional group is tried
\* first (with the whitespace, then without), then the match without it.
DomTimeEndAt(s, p) ==
    LET h == HourLenAt(s, p)
        e == p + h + 2
    IN  IF h = 0 \/ ~BoundaryBefore(s, p) THEN 0
        ELSE IF e + 1 <= Len(s) /\ IsSpace(s[e + 1]) /\ MeridiemAt(s, e + 2)
                /\ BoundaryAfter(s, e + 3) THEN e + 3
        ELSE IF MeridiemAt(s, e + 1) /\ BoundaryAfter(s, e + 2) THEN e + 2
        ELSE IF BoundaryAfter(s, e) THEN e
        ELSE 0

\* re.search(r"\b\d{1,2}:\d{2}(?:\s?[AP]M)?\b", text, re.IGNORECASE):
\* group(0) of the leftmost match, <<>> for None
DomTimeMatch(s) ==
    LET starts == {p \in 1..Len(s) : DomTimeEndAt(s, p) > 0}
    IN  IF starts = {} THEN <<>>
        ELSE Slice(s, Least(starts), DomTimeEndAt(s, Least(starts)))

\* g.split(":")[1]: the text between the first colon and the next one
SplitColonSecond(g) ==
    LET c1   == Least({i \in 1..Len(g) : g[i] = ":"})
        rest == Slice(g, c1 + 1, Len(g))
        c2s  == {i \in 1..Len(rest) : rest[i] = ":"}
    IN  IF c2s = {} THEN rest ELSE Slice(rest, 1, Least(c2s) - 1)

\* int(tm.group(0).split(":")[1][:2])
DomMinutes(g) ==
    LET f == SplitColonSecond(g) IN ParseInt(Slice(f, 1, Min(2, Len(f))))

\* first index >= q that does not satisfy the class, Len(s)+1 when none
SkipSpaces(s, q) == Least({i \in q..(Len(s) + 1) : i = Len(s) + 1 \/ ~IsSpace(s[i])})

SkipDigits(s, q) == Least({i \in q..(Len(s) + 1) : i = Len(s) + 1 \/ ~IsDigit(s[i])})

\* \$\s*\d+(?:\.\d{2})? at p: the index of the last matched character,
\* 0 when nothing matches at p
CurrencyEndAt(s, p) ==
    LET q == SkipSpaces(s, p + 1)
        r == SkipDigits(s, q) - 1
    IN  IF s[p] # "$" \/ r < q THEN 0
        ELSE IF r + 3 <= Len(s) /\ s[r + 1] = "." /\ IsDigit(s[r + 2]) /\ IsDigit(s[r + 3])
             THEN r + 3
        ELSE r

\* m.group(0) of re.search(r"\$\s*\d+(?:\.\d{2})?", text), <<>> for None
CurrencyMatch(s) ==
    LET starts == {p \in 1..Len(s) : CurrencyEndAt(s, p) > 0}
    IN  IF starts = {} THEN <<>>
        ELSE Slice(s, Least(starts), CurrencyEndAt(s, Least(starts)))

\* as _parse_currency, but the match is returned as it stands in the text
ParseCurrencyKeepSpaces(text) == CurrencyMatch(text)

\* _parse_currency(text)
_parse_currency(text) == RemoveSpaces(CurrencyMatch(text))

----------------------------------------------------------------------------
(* JSON values: a tagged union.  Every node is [tag, val, items]; items are  *)
(* [k, v] entries in iteration order (k is <<>> for the elements of a list). *)
(* val is the text of a string, or what str() gives for a number.            *)

JStr(s) == [tag |-> "str", val |-> s, items |-> <<>>]

JNum(text) == [tag |-> "num", val |-> text, items |-> <<>>]

JNull == [tag |-> "null", val |-> <<>>, items |-> <<>>]

JList(elems) ==
    [tag |-> "list", val |-> <<>>, items |-> [i \in 1..Len(elems) |-> [k |-> <<>>, v |-> elems[i]]]]

JDict(entries) == [tag |-> "dict", val |-> <<>>, items |-> entries]

\* repr() of the characters of a str: the tab and the backslash are escaped
RECURSIVE ReprChars(_)
ReprChars(s) ==
    IF s = <<>> THEN <<>>
    ELSE (IF Head(s) = TAB THEN <<"\\", "t">>
          ELSE IF Head(s) = "\\" THEN <<"\\", "\\">>
          ELSE <<Head(s)>>) \o ReprChars(Tail(s))

\* repr(value), for strings that hold no quote characters
RECURSIVE PyRepr(_), ReprItems(_, _, _)
PyRepr(node) ==
    CASE node.tag = "str"  -> <<"'">> \o ReprChars(node.val) \o <<"'">>
      [] node.tag = "num"  -> node.val
      [] node.tag = "null" -> <<"N", "o", "n", "e">>
      [] node.tag = "list" -> <<"[">> \o ReprItems(node.items, 1, FALSE) \o <<"]">>
      [] node.tag = "dict" -> <<"{">> \o ReprItems(node.items, 1, TRUE) \o <<"}">>

ReprItems(items, i, withKeys) ==
    IF i > Len(items) THEN <<>>
    ELSE (IF i > 1 THEN <<",", " ">> ELSE <<>>)
         \o (IF withKeys THEN <<"'">> \o ReprChars(items[i].k) \o <<"'", ":", " ">> ELSE <<>>)
         \o PyRepr(items[i].v)
         \o ReprItems(items, i + 1, withKeys)

\* str(value)
PyStr(node) == IF node.tag = "str" THEN node.val ELSE PyRepr(node)

----------------------------------------------------------------------------
(* TicketSlot and the JSON payload scanner *)

TicketSlot(date, time, price, source) ==
    [date |-> date, time |-> time, price |-> price, source |-> source]

\* the alias lists probed on lines 59 and 60, in priority order
TimeAliases ==
    << <<"t","i","m","e">>,
       <<"s","t","a","r","t","t","i","m","e">>,
       <<"s","t","a","r","t","_","t","i","m","e">>,
       <<"s","l","o","t","_","t","i","m","e">> >>

PriceAliases ==
    << <<"p","r","i","c","e">>,
       <<"a","d","u","l","t","p","r","i","c","e">>,
       <<"a","d","u","l","t","_","p","r","i","c","e">>,
       <<"d","i","s","p","l","a","y","p","r","i","c","e">>,
       <<"f","o","r","m","a","t","t","e","d","p","r","i","c","e">> >>

Greatest(S) == CHOOSE x \in S : \A y \in S : y <= x

\* keys = {k.lower(): k for k in payload.keys()}: the positions whose key
\* folds to a; a later key replaces an earlier one in the comprehension
FoldsTo(payload, a) == {i \in 1..Len(payload.items) : Lower(payload.items[i].k) = a}

\* keys[a], for a in keys
KeysAt(payload, a) == payload.items[Greatest(FoldsTo(payload, a))].k

\* as AliasKey, but the last alias of the list that is present is taken
AliasKeyLastPresent(payload, aliases) ==
    LET present == {n \in 1..Len(aliases) : FoldsTo(payload, aliases[n]) # {}}
    IN  IF present = {} THEN <<>> ELSE KeysAt(payload, aliases[Greatest(present)])

\* next((keys[k] for k in aliases if k in keys), None); None is <<>>
AliasKey(payload, aliases) ==
    LET present == {n \in 1..Len(aliases) : FoldsTo(payload, aliases[n]) # {}}
    IN  IF present = {} THEN <<>> ELSE KeysAt(payload, aliases[Least(present)])

\* payload.get(key, ""), for a key of payload
DictGet(payload, key) ==
    payload.items[CHOOSE i \in 1..Len(payload.items) : payload.items[i].k = key].v

\* as MappingSlots, but the minutes are not tested
MappingSlotsAnyMinute(payload, requested_date) ==
    LET time_key  == AliasKey(payload, TimeAliases)
        price_key == AliasKey(payload, PriceAliases)
    IN  IF time_key # <<>> /\ price_key # <<>>
        THEN LET raw_time     == Strip(PyStr(DictGet(payload, time_key)))
                 raw_price    == Strip(PyStr(DictGet(payload, price_key)))
             IN  IF MinuteMatch(raw_time) # <<>> /\ raw_price # <<>>
                 THEN <<TicketSlot(requested_date, raw_time, raw_price, "network-json")>>
                 ELSE <<>>
        ELSE <<>>

\* lines 62-70: the slots this mapping itself appends (at most one)
MappingSlots(payload, requested_date) ==
    LET time_key  == AliasKey(payload, TimeAliases)
        price_key == AliasKey(payload, PriceAliases)
    IN  IF time_key # <<>> /\ price_key # <<>>
        THEN LET raw_time     == Strip(PyStr(DictGet(payload, time_key)))
                 raw_price    == Strip(PyStr(DictGet(payload, price_key)))
                 minute_match == MinuteMatch(raw_time)
             IN  IF /\ minute_match # <<>>
                    /\ MinuteGroup(raw_time, minute_match) % 10 = 0
                    /\ raw_price # <<>>
                 THEN <<TicketSlot(requested_date, raw_time, raw_price, "network-json")>>
                 ELSE <<>>
        ELSE <<>>

\* as ValuesToScan, but a mapping that appended a slot is not descended into
ValuesUnlessEmitted(payload, own) == IF own = <<>> THEN payload.items ELSE <<>>

\* line 72: payload.values() is scanned whatever the mapping itself appended
ValuesToScan(payload, own) == payload.items

\* _collect_slots_from_json(payload, out, requested_date): the list out after
\* the call.  CollectEach is the for loop over the elements or the values.
RECURSIVE _collect_slots_from_json(_, _, _), CollectEach(_, _, _, _)
_collect_slots_from_json(payload, out, requested_date) ==
    IF payload.tag = "list" THEN CollectEach(payload.items, 1, out, requested_date)
    ELSE IF payload.tag # "dict" THEN out
    ELSE CollectEach(ValuesToScan(payload, MappingSlots(payload, requested_date)), 1,
                     out \o MappingSlots(payload, requested_date), requested_date)

CollectEach(items, i, out, requested_date) ==
    IF i > Len(items) THEN out
    ELSE CollectEach(items, i + 1,
                     _collect_slots_from_json(items[i].v, out, requested_date),
                     requested_date)

----------------------------------------------------------------------------
(* The rendered text sweep.  An element of the page is                      *)
(* [text, parent, stale, parent_stale]: what inner_text() gives for it and  *)
(* for its parent, and whether those reads raise instead.                   *)

Element(text, parent, stale, parent_stale) ==
    [text |-> text, parent |-> parent, stale |-> stale, parent_stale |-> parent_stale]

\* line 86: the sweep is capped at this many elements
MaxSweep == 4000

\* line 90: the text-length ceiling
MaxTextLen == 200

\* lines 89-111 for one element: the slots appended for it (at most one) and
\* whether an inner_text() call raised.  Neither call is inside a try.
ElementSlots(el, requested_date) ==
    IF el.stale THEN [raised |-> TRUE, slots |-> <<>>]
    ELSE LET text == Strip(el.text)
             tm   == DomTimeMatch(text)
             own  == _parse_currency(text)
         IN  IF text = <<>> \/ Len(text) > MaxTextLen THEN [raised |-> FALSE, slots |-> <<>>]
             ELSE IF tm = <<>> THEN [raised |-> FALSE, slots |-> <<>>]
             ELSE IF DomMinutes(tm) % 10 # 0 THEN [raised |-> FALSE, slots |-> <<>>]
             ELSE IF own = <<>> /\ el.parent_stale THEN [raised |-> TRUE, slots |-> <<>>]
             ELSE LET price == IF own # <<>> THEN own ELSE _parse_currency(el.parent)
                  IN  IF price = <<>> THEN [raised |-> FALSE, slots |-> <<>>]
                      ELSE [raised |-> FALSE,
                            slots  |-> <<TicketSlot(requested_date,
                                                    CollapseDoubleSpaces(Upper(tm)),
                                                    price, "dom")>>]

----------------------------------------------------------------------------
(* dict[tuple[str, str], TicketSlot]: entries [key, value] in insertion     *)
(* order; assigning to a key that is present replaces its value in place.   *)

\* as SlotKey, but the time alone
SlotKeyTimeOnly(s) == <<s.time>>

SlotKey(s) == <<s.time, s.price>>

DictPut(d, key, value) ==
    IF \E n \in 1..Len(d) : d[n].key = key
    THEN [n \in 1..Len(d) |-> IF d[n].key = key THEN [key |-> key, value |-> value] ELSE d[n]]
    ELSE Append(d, [key |-> key, value |-> value])

DictValues(d) == [n \in 1..Len(d) |-> d[n].value]

\* lines 114-116 and 185-187: for s in list: d[(s.time, s.price)] = s
RECURSIVE DedupInto(_, _)
DedupInto(d, list) ==
    IF list = <<>> THEN d
    ELSE DedupInto(DictPut(d, SlotKey(Head(list)), Head(list)), Tail(list))

\* as SortKeyLess, but the price does not break ties
SortKeyLessTimeOnly(a, b) == StrLess(a.time, b.time)

\* the sort key of line 191 compared as Python compares tuples of str
SortKeyLess(a, b) ==
    \/ StrLess(a.time, b.time)
    \/ a.time = b.time /\ StrLess(a.price, b.price)

\* insert s after every element that is not greater than it (stable)
InsertSorted(sorted, s) ==
    LET before == {n \in 1..Len(sorted) : ~SortKeyLess(s, sorted[n])}
        pos    == IF before = {} THEN 0 ELSE Greatest(before)
    IN  SubSeq(sorted, 1, pos) \o <<s>> \o SubSeq(sorted, pos + 1, Len(sorted))

\* sorted(values, key=lambda s: (s.time, s.price))
RECURSIVE SortedFrom(_, _)
SortedFrom(acc, list) ==
    IF list = <<>> THEN acc ELSE SortedFrom(InsertSorted(acc, Head(list)), Tail(list))

Sorted(list) == SortedFrom(<<>>, list)

----------------------------------------------------------------------------
(* The response callback.  A response is [content_type, url, decodes,       *)
(* payload]: the header value ("" when absent), the URL, whether            *)
(* response.json() returns, and the tree it returns.                        *)

Response(content_type, url, decodes, payload) ==
    [content_type |-> content_type, url |-> url, decodes |-> decodes, payload |-> payload]

\* line 145: the keywords looked for in the lower-cased URL
UrlKeywords ==
    { <<"a","v","a","i","l","a","b","i","l","i","t","y">>, <<"t","i","m","e","s","l","o","t">>, <<"t","i","c","k","e","t">>, <<"c","a","l","e","n","d","a","r">>, <<"b","o","o","k">> }

\* as PassesGates, but without the content-type test
PassesUrlGateOnly(r) ==
    /\ \E k \in UrlKeywords : Contains(Lower(r.url), k)
    /\ r.decodes

\* lines 141-150: the response gets as far as the scanner
PassesGates(r) ==
    /\ Contains(r.content_type, <<"j","s","o","n">>)
    /\ \E k \in UrlKeywords : Contains(Lower(r.url), k)
    /\ r.decodes

\* on_response(response): slots_from_network after the callback
on_response(r, network, requested_date) ==
    IF PassesGates(r) THEN _collect_slots_from_json(r.payload, network, requested_date)
    ELSE network

----------------------------------------------------------------------------
(* Bounds *)

\* responses the browser delivers in a full run
MaxResponses == 2

\* elements of the page in a full run
MaxCount == 1

\* elements of the page when the sweep is run on its own inputs
MaxSweepCount == 2

\* entries of a mapping of a scanned payload
MaxItems == 3

\* nesting added around a value of a scanned payload
MaxDepth == 2

----------------------------------------------------------------------------
(* Inputs *)

SeqsUpTo(S, n) == UNION {[1..m -> S] : m \in 0..n}

RequestedDate == "2026-11-06"

Entry(key, value) == [k |-> key, v |-> value]

\* payloads of the responses of a full run
SlotListPayload ==
    JList(<< JDict(<<Entry(<<"t","i","m","e">>, JStr(<<"1",":","0","0"," ","P","M">>)), Entry(<<"p","r","i","c","e">>, JStr(<<"$","3","0",".","0","0">>))>>),
             JDict(<<Entry(<<"t","i","m","e">>, JStr(<<"1","0",":","3","0"," ","A","M">>)), Entry(<<"p","r","i","c","e">>, JStr(<<"$","4","5",".","0","0">>))>>),
             JDict(<<Entry(<<"t","i","m","e">>, JStr(<<"1","0",":","3","0"," ","A","M">>)), Entry(<<"p","r","i","c","e">>, JStr(<<"$","4","2",".","0","0">>))>>) >>)

OtherPayload ==
    JDict(<<Entry(<<"S","t","a","r","t","T","i","m","e">>, JStr(<<"1","1",":","5","0"," ","A","M">>)), Entry(<<"A","d","u","l","t","P","r","i","c","e">>, JStr(<<"$","4","5",".","0","0">>))>>)

\* one response that passes the gates, and one that fails each gate alone
RunResponses ==
    { Response(<<"a","p","p","l","i","c","a","t","i","o","n","/","j","s","o","n",";"," ","c","h","a","r","s","e","t","=","u","t","f","-","8">>, <<"h","t","t","p","s",":","/","/","x",".","t","e","s","t","/","A","P","I","/","A","v","a","i","l","a","b","i","l","i","t","y">>, TRUE, SlotListPayload),
      Response(<<"t","e","x","t","/","h","t","m","l">>, <<"h","t","t","p","s",":","/","/","x",".","t","e","s","t","/","t","i","c","k","e","t">>, TRUE, OtherPayload),
      Response(<<"a","p","p","l","i","c","a","t","i","o","n","/","j","s","o","n">>, <<"h","t","t","p","s",":","/","/","x",".","t","e","s","t","/","s","t","a","t","i","c","/","f","o","n","t","s">>, TRUE, OtherPayload),
      Response(<<"a","p","p","l","i","c","a","t","i","o","n","/","j","s","o","n">>, <<"h","t","t","p","s",":","/","/","x",".","t","e","s","t","/","c","a","l","e","n","d","a","r">>, FALSE, JNull) }

\* elements of the page of a full run
RunElements ==
    { Element(<<"1","0",":","3","0"," ","A","M"," ","-"," ","$","4","2",".","0","0">>, <<>>, FALSE, FALSE),
      Element(<<"9",":","0","0"," ","a","m"," ","$"," ","5","0">>, <<>>, FALSE, FALSE),
      Element(<<>>, <<>>, TRUE, FALSE) }

\* a text of n characters that ends in a time and a price
Padded(n) == [j \in 1..(n - 9) |-> "x"] \o <<" ","1","0",":","3","0"," ","$","5">>

\* texts of the elements the sweep is run on
SweepTexts ==
    { <<"1","0",":","3","0"," ","A","M"," ","-"," ","$","4","2",".","0","0">>, <<" ","1","0",":","4","0"," ","a","m"," "," ","$"," ","4","2"," ">>, <<"1","0",":","0","7"," ","$","5">>, <<"1","0",":","3","0","\t","P","M"," ","$"," ","\t","7">>,
      <<"x","1","0",":","3","0"," ","$","5">>, <<"$","9",".","5","0","5"," ","a","t"," ","9",":","5","0","P","M">>, <<"B","u","y"," ","T","i","c","k","e","t","s">>,
      Padded(MaxTextLen), Padded(MaxTextLen + 1) }

SweepElements ==
    {Element(t, <<>>, FALSE, FALSE) : t \in SweepTexts}
    \cup {Element(<<"1",":","0","0"," ","P","M">>, p, FALSE, FALSE) : p \in {<<"1",":","0","0"," ","P","M"," ","f","r","o","m"," ","$"," "," ","3","0",".","0","0">>, <<"1",":","0","0"," ","P","M"," ","s","o","l","d"," ","o","u","t">>}}
    \cup { Element(<<"1","1",":","2","0">>, <<>>, FALSE, TRUE),
           Element(<<>>, <<>>, TRUE, FALSE) }

\* mappings of at most MaxItems of these entries, with distinct keys
LeafEntries ==
    { Entry(<<"t","i","m","e">>, JStr(<<"1","0",":","3","0">>)), Entry(<<"t","i","m","e">>, JStr(<<" ","1","0",":","0","7">>)),
      Entry(<<"T","i","m","e">>, JStr(<<"1","0",":","4","0">>)), Entry(<<"s","t","a","r","t","t","i","m","e">>, JStr(<<"1","4",":","2","0"," ">>)),
      Entry(<<"p","r","i","c","e">>, JStr(<<"$","5","5">>)), Entry(<<"p","r","i","c","e">>, JStr(<<" ">>)),
      Entry(<<"A","d","u","l","t","P","r","i","c","e">>, JStr(<<"$"," ","6","0">>)) }

DistinctKeys(entries) ==
    \A a, b \in 1..Len(entries) : a # b => entries[a].k # entries[b].k

LeafMappings ==
    {JDict(e) : e \in {x \in SeqsUpTo(LeafEntries, MaxItems) : DistinctKeys(x)}}

\* the values nested trees are built from
GoodMapping == JDict(<<Entry(<<"S","t","a","r","t","T","i","m","e">>, JStr(<<"1","4",":","2","0">>)), Entry(<<"A","d","u","l","t","P","r","i","c","e">>, JStr(<<"$","5","5">>))>>)

BadMinuteMapping == JDict(<<Entry(<<"t","i","m","e">>, JStr(<<"1","0",":","0","7">>)), Entry(<<"p","r","i","c","e">>, JStr(<<"$","1","0">>))>>)

NestBase == { GoodMapping, BadMinuteMapping, JStr(<<"1","2",":","4","0">>), JNum(<<"4","2">>), JNull }

\* one more level around t: in a list, under a key of a mapping that does not
\* qualify, under a key of a mapping that does, and as the value of a time key
Wrap(t) ==
    { JList(<<t, GoodMapping>>),
      JList(<<JNum(<<"1","0",".","3">>), t>>),
      JDict(<<Entry(<<"d","a","t","a">>, t)>>),
      JDict(<<Entry(<<"s","l","o","t","_","t","i","m","e">>, JStr(<<"9",":","5","0"," ","P","M">>)), Entry(<<"d","i","s","p","l","a","y","p","r","i","c","e">>, JNum(<<"3","0">>)), Entry(<<"n","e","x","t">>, t)>>),
      JDict(<<Entry(<<"t","i","m","e">>, t), Entry(<<"f","o","r","m","a","t","t","e","d","p","r","i","c","e">>, JStr(<<"$","5">>))>>) }

RECURSIVE Nested(_)
Nested(d) == IF d = 0 THEN NestBase ELSE Nested(d - 1) \cup UNION {Wrap(t) : t \in Nested(d - 1)}

ScanPayloads == LeafMappings \cup Nested(MaxDepth)

ScanResponses ==
    {Response(<<"a","p","p","l","i","c","a","t","i","o","n","/","j","s","o","n">>, <<"h","t","t","p","s",":","/","/","x",".","t","e","s","t","/","t","i","m","e","s","l","o","t">>, TRUE, p) : p \in ScanPayloads}

NoResponse == Response(<<>>, <<>>, FALSE, JNull)

----------------------------------------------------------------------------
(* State *)

VARIABLES
    requested_date,      \* the date label of the run
    page,                \* the elements the locator of line 85 matches
    pending,             \* the responses the browser has still to deliver
    pc,                  \* where scrape_top_of_rock is
    slots_from_network,  \* line 134
    response,            \* the argument of the latest on_response call
    mark,                \* len(slots_from_network) when that call began
    count,               \* line 86
    i,                   \* elements the loop of line 88 has dealt with
    slots,               \* line 82
    slot_elem,           \* for each entry of slots, the index of its element
    dom_slots,           \* line 182
    dedup,               \* line 185
    result,              \* line 191
    reads,               \* times line 184 has read slots_from_network
    read_len             \* len(slots_from_network) at that read

vars == <<requested_date, page, pending, pc, slots_from_network, response, mark, count, i,
          slots, slot_elem, dom_slots, dedup, result, reads, read_len>>

\* the Playwright calls during which the response callback is dispatched:
\* lines 156-177, 85-86, 89-105 and 189
CallbackPoints == {"navigate", "dom_enter", "sweep", "close"}

\* lines 133-153: nothing collected yet, the callback registered
Start ==
    /\ requested_date = RequestedDate
    /\ pc = "navigate"
    /\ slots_from_network = <<>>
    /\ response = NoResponse
    /\ mark = 0
    /\ count = 0
    /\ i = 0
    /\ slots = <<>>
    /\ slot_elem = <<>>
    /\ dom_slots = <<>>
    /\ dedup = <<>>
    /\ result = <<>>
    /\ reads = 0
    /\ read_len = 0

\* a full run: a page and the responses the browser will deliver
Init ==
    /\ page \in SeqsUpTo(RunElements, MaxCount)
    /\ pending \in SeqsUpTo(RunResponses, MaxResponses)
    /\ Start

\* the JSON scanner on its own inputs: one response that passes the gates
InitScan ==
    /\ page = <<>>
    /\ pending \in {<<r>> : r \in ScanResponses}
    /\ Start

\* the sweep on its own inputs: a page, and no response
InitSweep ==
    /\ page \in SeqsUpTo(SweepElements, MaxSweepCount)
    /\ pending = <<>>
    /\ Start

\* lines 140-151, dispatched for the next response the browser delivers
OnResponse ==
    /\ pc \in CallbackPoints
    /\ pending # <<>>
    /\ response' = Head(pending)
    /\ pending' = Tail(pending)
    /\ mark' = Len(slots_from_network)
    /\ slots_from_network' = on_response(Head(pending), slots_from_network, requested_date)
    /\ UNCHANGED <<requested_date, page, pc, count, i, slots, slot_elem, dom_slots, dedup,
                   result, reads, read_len>>

\* lines 155-180: open the page, let it settle, try the calls to action
Navigate ==
    /\ pc = "navigate"
    /\ pc' = "dom_enter"
    /\ UNCHANGED <<requested_date, page, pending, slots_from_network, response, mark, count, i,
                   slots, slot_elem, dom_slots, dedup, result, reads, read_len>>

\* lines 82-86
DomEnter ==
    /\ pc = "dom_enter"
    /\ slots' = <<>>
    /\ slot_elem' = <<>>
    /\ count' = Min(Len(page), MaxSweep)
    /\ i' = 0
    /\ pc' = "sweep"
    /\ UNCHANGED <<requested_date, page, pending, slots_from_network, response, mark,
                   dom_slots, dedup, result, reads, read_len>>

\* lines 88-111, one iteration; an exception leaves the function and the run
DomStep ==
    /\ pc = "sweep"
    /\ i < count
    /\ LET r == ElementSlots(page[i + 1], requested_date)
       IN  IF r.raised
           THEN /\ pc' = "raised"
                /\ UNCHANGED <<i, slots, slot_elem>>
           ELSE /\ slots' = slots \o r.slots
                /\ slot_elem' = slot_elem \o [n \in 1..Len(r.slots) |-> i + 1]
                /\ i' = i + 1
                /\ pc' = pc
    /\ UNCHANGED <<requested_date, page, pending, slots_from_network, response, mark, count,
                   dom_slots, dedup, result, reads, read_len>>

\* lines 113-117 and the assignment of line 182
DomReturn ==
    /\ pc = "sweep"
    /\ i = count
    /\ dom_slots' = DictValues(DedupInto(<<>>, slots))
    /\ pc' = "reconcile"
    /\ UNCHANGED <<requested_date, page, pending, slots_from_network, response, mark, count, i,
                   slots, slot_elem, dedup, result, reads, read_len>>

\* lines 184-187
Reconcile ==
    /\ pc = "reconcile"
    /\ dedup' = DedupInto(<<>>, slots_from_network \o dom_slots)
    /\ reads' = reads + 1
    /\ read_len' = Len(slots_from_network)
    /\ pc' = "close"
    /\ UNCHANGED <<requested_date, page, pending, slots_from_network, response, mark, count, i,
                   slots, slot_elem, dom_slots, result>>

\* line 189
Close ==
    /\ pc = "close"
    /\ pc' = "sort"
    /\ UNCHANGED <<requested_date, page, pending, slots_from_network, response, mark, count, i,
                   slots, slot_elem, dom_slots, dedup, result, reads, read_len>>

\* lines 191-199
Finish ==
    /\ pc = "sort"
    /\ result' = Sorted(DictValues(dedup))
    /\ pc' = "done"
    /\ UNCHANGED <<requested_date, page, pending, slots_from_network, response, mark, count, i,
                   slots, slot_elem, dom_slots, dedup, reads, read_len>>

Next ==
    \/ OnResponse
    \/ Navigate
    \/ DomEnter
    \/ DomStep
    \/ DomReturn
    \/ Reconcile
    \/ Close
    \/ Finish

Spec == Init /\ [][Next]_vars

\* the callback applied to each payload of ScanPayloads
NextScan == OnResponse

SpecScan == InitScan /\ [][NextScan]_vars

\* both scanners on their own inputs, each followed by the rest of the run
InitScanners == InitScan \/ InitSweep

SpecScanners == InitScanners /\ [][Next]_vars

----------------------------------------------------------------------------
(* Vocabulary of the properties *)

KeyOf(s) == <<s.time, s.price>>

KeysIn(list) == {KeyOf(list[n]) : n \in 1..Len(list)}

\* the part of slots_from_network that line 184 read
NetworkRead == SubSeq(slots_from_network, 1, read_len)

\* what the latest on_response call appended
LastAppended == SubSeq(slots_from_network, mark + 1, Len(slots_from_network))

\* the value and all the values below it
RECURSIVE SubNodes(_)
SubNodes(node) ==
    {node} \cup UNION {SubNodes(node.items[n].v) : n \in 1..Len(node.items)}

IsPrefix(s, t) == Len(s) <= Len(t) /\ SubSeq(t, 1, Len(s)) = s

\* t holds digit, colon, digit, "0": an H:MM whose minutes are a multiple of 10
HasTenMinuteTime(t) ==
    \E p \in 1..(Len(t) - 3) :
        IsDigit(t[p]) /\ t[p + 1] = ":" /\ IsDigit(t[p + 2]) /\ t[p + 3] = "0"

AllSlotsHeld ==
    Range(slots_from_network) \cup Range(slots) \cup Range(dom_slots)
        \cup Range(DictValues(dedup)) \cup Range(result)

----------------------------------------------------------------------------
(* C1: when the network list and the DOM list both hold a slot with the     *)
(* same (time, price), the output holds exactly one slot with that key and  *)
(* it is tagged network-json.                                               *)
C1_NetworkSlotSurvives ==
    pc = "done" =>
        \A k \in KeysIn(NetworkRead) \cap KeysIn(dom_slots) :
            /\ Cardinality({n \in 1..Len(result) : KeyOf(result[n]) = k}) = 1
            /\ \A n \in 1..Len(result) : KeyOf(result[n]) = k => result[n].source = "network-json"

(* C2: a failing read of a snippet's text (or of its parent's text) never   *)
(* leaves the sweep as an error; the sweep goes on to the next snippet.     *)
C2_ReadFailureIsCaught == pc # "raised"

(* C3: every slot either scanner emits, and every slot of the reconciled    *)
(* output, has a time with an H:MM whose minutes are a multiple of 10 and a *)
(* price that is not empty.                                                 *)
C3_SlotsAreTenMinuteAndPriced ==
    \A s \in AllSlotsHeld : HasTenMinuteTime(s.time) /\ s.price # <<>>

C3_Witness ==
    /\ pc = "done"
    /\ Len(result) >= 2
    /\ result[1].source = "dom"

\* the text the price of the slot of element el is looked for in: the
\* snippet itself when it holds a currency match, its parent's text otherwise
PriceSource(el) ==
    IF CurrencyMatch(Strip(el.text)) # <<>> THEN Strip(el.text) ELSE el.parent

\* some mapping of the payload has a price alias whose value, as a string,
\* holds price as a contiguous substring
InSomePriceValue(payload, price) ==
    \E m \in SubNodes(payload) : \E n \in 1..Len(m.items), a \in 1..Len(PriceAliases) :
        /\ m.tag = "dict"
        /\ Lower(m.items[n].k) = PriceAliases[a]
        /\ Contains(PyStr(m.items[n].v), price)

(* C4 as stated: the price of every slot is a contiguous substring of the   *)
(* text it was found in, also when the source writes whitespace between the *)
(* dollar sign and the digits.                                              *)
C4_PriceIsSourceSubstring ==
    /\ \A n \in 1..Len(slots) :
          \/ Contains(page[slot_elem[n]].text, slots[n].price)
          \/ Contains(page[slot_elem[n]].parent, slots[n].price)
    /\ \A n \in 1..Len(LastAppended) :
          InSomePriceValue(response.payload, LastAppended[n].price)

(* C4 as amended: a network-json price is a contiguous substring of the     *)
(* JSON price value; a dom price is the currency match of the snippet (or   *)
(* of its parent when the snippet has none) with every space character      *)
(* deleted, so it holds no space, keeps any other whitespace, and is a      *)
(* contiguous substring of the source whenever the match has no space.      *)
C4_PriceIsMatchWithoutSpaces ==
    /\ \A n \in 1..Len(slots) :
          LET src   == PriceSource(page[slot_elem[n]])
              match == CurrencyMatch(src)
              price == slots[n].price
          IN  /\ match # <<>>
              /\ Contains(src, match)
              /\ " " \notin Range(price)
              /\ LET spaces == {q \in 1..Len(match) : match[q] = " "}
                 IN  /\ Len(price) = Len(match) - Cardinality(spaces)
                     /\ \A q \in (1..Len(match)) \ spaces :
                            price[q - Cardinality({d \in spaces : d < q})] = match[q]
              /\ (" " \notin Range(match)) => Contains(src, price)
    /\ \A n \in 1..Len(LastAppended) :
          InSomePriceValue(response.payload, LastAppended[n].price)

C4_Witness ==
    \E a, b \in 1..Len(slots) :
        /\ " " \in Range(CurrencyMatch(PriceSource(page[slot_elem[a]])))
        /\ ~Contains(PriceSource(page[slot_elem[a]]), slots[a].price)
        /\ TAB \in Range(slots[a].price)
        /\ PriceSource(page[slot_elem[b]]) = page[slot_elem[b]].parent

\* the position in aliases of the first alias some key of m folds to, 0 if none
FirstAlias(m, aliases) ==
    LET present == {a \in 1..Len(aliases) : \E n \in 1..Len(m.items) : Lower(m.items[n].k) = aliases[a]}
    IN  IF present = {} THEN 0 ELSE Least(present)

\* the strings the entries of m whose key folds to alias hold, trimmed
ValuesUnder(m, alias) ==
    {Strip(PyStr(m.items[n].v)) : n \in {q \in 1..Len(m.items) : Lower(m.items[q].k) = alias}}

IsLeafMapping(node) ==
    node.tag = "dict" /\ \A n \in 1..Len(node.items) : node.items[n].v.tag \notin {"dict", "list"}

SeveralAliases(m, aliases) ==
    Cardinality({a \in 1..Len(aliases) : \E n \in 1..Len(m.items) : Lower(m.items[n].k) = aliases[a]}) > 1

(* C5: a mapping with several time aliases or several price aliases,        *)
(* matched without regard to case, gives its candidate the value of the     *)
(* alias that is first in the priority list, never that of a later one.     *)
C5_FirstAliasWins ==
    (PassesGates(response) /\ IsLeafMapping(response.payload)) =>
        /\ Len(LastAppended) <= 1
        /\ \A n \in 1..Len(LastAppended) :
              /\ LastAppended[n].time
                     \in ValuesUnder(response.payload,
                                     TimeAliases[FirstAlias(response.payload, TimeAliases)])
              /\ LastAppended[n].price
                     \in ValuesUnder(response.payload,
                                     PriceAliases[FirstAlias(response.payload, PriceAliases)])

C5_Witness ==
    /\ PassesGates(response)
    /\ IsLeafMapping(response.payload)
    /\ SeveralAliases(response.payload, TimeAliases)
    /\ Len(LastAppended) = 1
    /\ \E n \in 1..Len(response.payload.items) :
          /\ Lower(response.payload.items[n].k) = TimeAliases[2]
          /\ HasTenMinuteTime(response.payload.items[n].v.val)
          /\ Strip(response.payload.items[n].v.val) # LastAppended[1].time
    /\ \E n \in 1..Len(response.payload.items) :
          response.payload.items[n].k \notin Range(TimeAliases) \cup Range(PriceAliases)

\* the sequences with the same entries as s in some order
Orderings(s) ==
    {[n \in 1..Len(s) |-> s[f[n]]] :
        f \in {g \in [1..Len(s) -> 1..Len(s)] : \A a, b \in 1..Len(s) : a # b => g[a] # g[b]}}

\* the trees that differ from node only in the order of the elements of
\* arrays and of the keys of mappings
RECURSIVE Reorderings(_), ReorderedItems(_)
Reorderings(node) ==
    {[node EXCEPT !.items = o] : o \in UNION {Orderings(r) : r \in ReorderedItems(node.items)}}

ReorderedItems(items) ==
    IF items = <<>> THEN {<<>>}
    ELSE {<<[k |-> Head(items).k, v |-> c]>> \o rest :
             c \in Reorderings(Head(items).v), rest \in ReorderedItems(Tail(items))}

(* C6: the set of (time, price) slots the JSON scanner emits for a tree is  *)
(* the same for every reordering of the elements of its arrays and of the   *)
(* keys of its mappings.                                                    *)
C6_ScanOrderIrrelevant ==
    PassesGates(response) =>
        \A q \in Reorderings(response.payload) :
            KeysIn(_collect_slots_from_json(q, <<>>, requested_date)) = KeysIn(LastAppended)

\* the mapping has a time key and a price key, the first H:MM of the time
\* has minutes that are a multiple of 10 and the trimmed price is not empty
Qualifies(m) ==
    /\ m.tag = "dict"
    /\ AliasKey(m, TimeAliases) # <<>>
    /\ AliasKey(m, PriceAliases) # <<>>
    /\ LET t == Strip(PyStr(DictGet(m, AliasKey(m, TimeAliases))))
       IN  MinuteMatch(t) # <<>> /\ MinuteGroup(t, MinuteMatch(t)) % 10 = 0
    /\ Strip(PyStr(DictGet(m, AliasKey(m, PriceAliases)))) # <<>>

\* the mappings at and below node that qualify, counted with multiplicity
RECURSIVE CountQualifying(_), CountBelow(_, _)
CountQualifying(node) ==
    (IF Qualifies(node) THEN 1 ELSE 0) + CountBelow(node.items, 1)

CountBelow(items, n) ==
    IF n > Len(items) THEN 0 ELSE CountQualifying(items[n].v) + CountBelow(items, n + 1)

(* C7: every mapping at any depth of the payload that has a time alias with *)
(* minutes divisible by 10 and a price alias with a non-empty value gets a  *)
(* slot, whether or not a mapping above it got one; nothing else does.      *)
C7_TraversalIsExhaustive ==
    PassesGates(response) =>
        /\ \A m \in SubNodes(response.payload) :
              Qualifies(m) =>
                  \E n \in 1..Len(LastAppended) :
                      /\ LastAppended[n].time = Strip(PyStr(DictGet(m, AliasKey(m, TimeAliases))))
                      /\ LastAppended[n].price = Strip(PyStr(DictGet(m, AliasKey(m, PriceAliases))))
        /\ Len(LastAppended) = CountQualifying(response.payload)
        /\ response.payload.tag \notin {"dict", "list"} => LastAppended = <<>>

C7_Witness ==
    /\ PassesGates(response)
    /\ Len(LastAppended) >= 2
    /\ \E m \in SubNodes(response.payload) : \E n \in 1..Len(m.items) :
          /\ Qualifies(m)
          /\ \E c \in SubNodes(m.items[n].v) :
                /\ c.tag = "dict"
                /\ ~Qualifies(c)
                /\ \E g \in 1..Len(c.items) : \E d \in SubNodes(c.items[g].v) : Qualifies(d)

(* C8: the output holds exactly one slot for each (time, price) found in    *)
(* the network list followed by the DOM list: no two output slots share a   *)
(* key and no candidate's key is missing, so one time with two prices gives *)
(* two records.  The sweep's own dedup keeps the same keys.                 *)
C8_OneSlotPerKey ==
    /\ pc \in {"reconcile", "close", "sort", "done"} =>
          /\ KeysIn(dom_slots) = KeysIn(slots)
          /\ Cardinality(KeysIn(dom_slots)) = Len(dom_slots)
    /\ pc = "done" =>
          /\ Cardinality(KeysIn(result)) = Len(result)
          /\ KeysIn(result) = KeysIn(NetworkRead) \cup KeysIn(slots)

C8_Witness ==
    /\ pc = "done"
    /\ Len(NetworkRead) + Len(slots) > Len(result)
    /\ \E a, b \in 1..Len(result) :
          result[a].time = result[b].time /\ result[a].price # result[b].price

\* str comparison written out on the code points
CodePointLeq(s, t) ==
    \/ s = t
    \/ \E n \in 1..Len(t) :
          /\ SubSeq(s, 1, Min(n - 1, Len(s))) = SubSeq(t, 1, n - 1)
          /\ (Len(s) < n \/ Ord(s[n]) < Ord(t[n]))

InOrder(a, b) ==
    \/ a.time # b.time /\ CodePointLeq(a.time, b.time)
    \/ a.time = b.time /\ CodePointLeq(a.price, b.price)

ResultSorted == \A a, b \in 1..Len(result) : a < b => InOrder(result[a], result[b])

Precedes(t1, t2) ==
    \A a, b \in 1..Len(result) : (result[a].time = t1 /\ result[b].time = t2) => a < b

(* C9 as stated: the output is sorted by (time, price) under plain string   *)
(* comparison, and so "1:00 PM" comes before "10:30 AM".                    *)
C9_SortedOneBeforeTen ==
    pc = "done" => ResultSorted /\ Precedes(<<"1",":","0","0"," ","P","M">>, <<"1","0",":","3","0"," ","A","M">>)

(* C9 as amended: the output is sorted by (time, price) under plain string  *)
(* comparison, which is by code point: "10:30 AM" comes before "1:00 PM"    *)
(* ("0" is below ":"), and "1:00 PM" before "9:00 AM".                      *)
C9_SortedByCodePoint ==
    pc = "done" =>
        /\ ResultSorted
        /\ Precedes(<<"1","0",":","3","0"," ","A","M">>, <<"1",":","0","0"," ","P","M">>)
        /\ Precedes(<<"1",":","0","0"," ","P","M">>, <<"9",":","0","0"," ","A","M">>)

C9_Witness ==
    /\ pc = "done"
    /\ \E a, b, c \in 1..Len(result) :
          /\ result[a].time = <<"1","0",":","3","0"," ","A","M">>
          /\ result[b].time = <<"1",":","0","0"," ","P","M">>
          /\ result[c].time = <<"9",":","0","0"," ","A","M">>
    /\ DictValues(dedup) # result

(* C10: slots_from_network only grows, by appending; a response that fails  *)
(* the content-type gate, the URL gate or JSON decoding leaves it as it is; *)
(* line 184 reads it once, after the sweep has dealt with every element;    *)
(* every slot appended before that read has its key in the output.          *)
C10_AppendOnlyReadOnceAfterSweep ==
    /\ [](/\ reads <= 1
          /\ reads = 1 <=> pc \in {"close", "sort", "done"}
          /\ reads = 1 => i = count /\ count = Min(Len(page), MaxSweep)
          /\ pc = "done" => KeysIn(NetworkRead) \subseteq KeysIn(result))
    /\ [][/\ IsPrefix(slots_from_network, slots_from_network')
          /\ (pending' # pending /\ ~( /\ Contains(response'.content_type, <<"j","s","o","n">>)
                                       /\ \E k \in UrlKeywords : Contains(Lower(response'.url), k)
                                       /\ response'.decodes ))
                 => slots_from_network' = slots_from_network
          /\ reads' # reads => pc = "reconcile" /\ i = count /\ read_len' = Len(slots_from_network)
         ]_vars

C10_Witness ==
    /\ pc = "done"
    /\ read_len > 0
    /\ Len(slots_from_network) > read_len
    /\ Len(page) > 0

====
